---- MODULE Spec2Model ----
(***************************************************************************)
(* A model of gperf_gcc_tracing: the interval tracker, the path            *)
(* normaliser and the trace emitter of the GCC plugin (src/src/tracking.cpp,*)
(* src/src/perf_output.cpp), driven by the callbacks of src/src/plugin.cpp. *)
(*                                                                         *)
(* Strings that the code inspects character by character (file paths) are  *)
(* tuples of one-character strings; the reserved names are one-token       *)
(* tuples.  Names that the code only stores and compares (pass, scope and  *)
(* function names) are TLA+ strings.  Every clock reading is an input of   *)
(* the action that takes it, drawn by the specification from the readings  *)
(* a non-decreasing clock can give next.                                   *)
(***************************************************************************)
EXTENDS Integers, Sequences, FiniteSets, TLC

VARIABLES
    clock,                         \* last value returned by ns_from_start()
    preprocess_start,              \* file -> start (ns)
    preprocess_end,                \* file -> end (ns)
    preprocessing_stack,           \* open inclusions, top is the last element
    last_function_parsed_ts,       \* the "last boundary" marker
    last_pass,                     \* the pending pass: [pass, ts]
    pass_events,                   \* history of passes
    file_to_include_directory,     \* file path -> include directory
    normalized_files_map,          \* file path -> normalized name
    normalized_files,              \* claimed normalized names
    conflicted_files,              \* normalized names claimed twice
    scope_events,                  \* vector<ScopeEvent>
    function_events,               \* vector<FunctionEvent>
    did_last_function_have_scope,  \* the static flag of end_parse_function
    output_events_list,            \* the traceEvents array
    UID,                           \* the static counter of add_event
    trace_file,                    \* the sink: [state, content]
    status,                        \* "running", "written", "terminated", "undefined"
    hist,                          \* log of the calls made so far (ghost)
    offered                        \* events handed to add_event so far (ghost)

incVars == <<preprocess_start, preprocess_end, preprocessing_stack>>
passVars == <<last_pass, pass_events>>
pathVars == <<file_to_include_directory, normalized_files_map, normalized_files, conflicted_files>>
funVars == <<scope_events, function_events, did_last_function_have_scope>>
outVars == <<output_events_list, UID, trace_file>>

vars == <<clock, incVars, last_function_parsed_ts, passVars, pathVars, funVars,
          outVars, status, hist, offered>>

(***************************************************************************)
(* Bounds of the model and constants of the program.                       *)
(***************************************************************************)
MaxInclOps == 4

MaxInclDepth == 2

MaxEmitDepth == 1

MaxSeqOps == 4

MaxSeqDepth == 1

MaxEmitOps == 4

MaxPathOps == 3

MaxRunOps == 3

MaxRunDepth == 2

MaxStartOps == 3

MaxHostOps == 4

MaxHostDepth == 2

MaxNamesOps == 3

MaxNamesDepth == 2

MINIMUM_EVENT_LENGTH_NS == 1000000

TU == 0

PREPROCESS == 1

FUNCTION == 2

STRUCT == 3

NAMESPACE == 4

GIMPLE_PASS == 5

RTL_PASS == 6

SIMPLE_IPA_PASS == 7

IPA_PASS == 8

UNKNOWN == 9

(***************************************************************************)
(* Values.                                                                 *)
(***************************************************************************)
nullptr == <<"nullptr">>

CIRCULAR_POISON_VALUE == <<"CIRCULAR_POISON_VALUE">>

CommandLine == <<"<command-line>">>

EmptyMap == [k \in {} |-> 0]

Put(m, k, v) == [x \in (DOMAIN m) \cup {k} |-> IF x = k THEN v ELSE m[x]]

Last(s) == s[Len(s)]

Front(s) == SubSeq(s, 1, Len(s) - 1)

TimeSpan(start, end) == [start |-> start, end |-> end]

NoArgs == [present |-> FALSE, key |-> "", value |-> nullptr]
                                   \* std::nullopt

Args(k, v) == [present |-> TRUE, key |-> k, value |-> v]
                                   \* a one-entry map_t<string, string>

TraceEvent(name, category, ts, args) ==
    [name |-> name, category |-> category, ts |-> ts, args |-> args]

(***************************************************************************)
(* The clock.  ns_from_start() is read once per use; a reading is never    *)
(* smaller than the one before it.                                         *)
(***************************************************************************)
Readings(ticks) == {clock + d : d \in ticks}

RECURSIVE ReadingSeqsFrom(_, _, _)
ReadingSeqsFrom(c, ticks, n) ==
    IF n = 0 THEN {<<>>}
    ELSE UNION {{<<c + d>> \o r : r \in ReadingSeqsFrom(c + d, ticks, n - 1)} : d \in ticks}

ReadingSeqs(ticks, n) == ReadingSeqsFrom(clock, ticks, n)

(***************************************************************************)
(* Path normaliser.                                                        *)
(***************************************************************************)
starts_with(s, prefix) ==
    /\ Len(prefix) <= Len(s)
    /\ SubSeq(s, 1, Len(prefix)) = prefix

\* std::string::substr(pos): throws std::out_of_range when pos > size()
substr_throws(s, pos) == pos > Len(s)

\* mutant: the separator is not skipped
substr_from_before(s, pos) == SubSeq(s, pos, Len(s))

substr(s, pos) == SubSeq(s, pos + 1, Len(s))

\* mutant: a path counts as registered only once it has a normalized name
register_include_location_by_name(file_name, dir_name) ==
    IF file_name \in DOMAIN normalized_files_map
    THEN UNCHANGED <<pathVars, status>>
    ELSE
        /\ file_to_include_directory' = Put(file_to_include_directory, file_name, dir_name)
        /\ IF starts_with(file_name, dir_name)
           THEN IF substr_throws(file_name, Len(dir_name) + 1)
                THEN /\ status' = "terminated"
                     /\ UNCHANGED <<normalized_files_map, normalized_files, conflicted_files>>
                ELSE LET normalized_file == substr(file_name, Len(dir_name) + 1)
                     IN  /\ normalized_files_map' =
                                Put(normalized_files_map, file_name, normalized_file)
                         /\ IF normalized_file \in normalized_files
                            THEN /\ conflicted_files' = conflicted_files \cup {normalized_file}
                                 /\ UNCHANGED normalized_files
                            ELSE /\ normalized_files' = normalized_files \cup {normalized_file}
                                 /\ UNCHANGED conflicted_files
                         /\ UNCHANGED status
           ELSE UNCHANGED <<normalized_files_map, normalized_files, conflicted_files, status>>

register_include_location(file_name, dir_name) ==
    IF file_name \in DOMAIN file_to_include_directory
    THEN UNCHANGED <<pathVars, status>>
    ELSE
        /\ file_to_include_directory' = Put(file_to_include_directory, file_name, dir_name)
        /\ IF starts_with(file_name, dir_name)
           THEN IF substr_throws(file_name, Len(dir_name) + 1)
                THEN \* std::out_of_range leaves the callback: std::terminate
                     /\ status' = "terminated"
                     /\ UNCHANGED <<normalized_files_map, normalized_files, conflicted_files>>
                ELSE LET normalized_file == substr(file_name, Len(dir_name) + 1)
                     IN  /\ normalized_files_map' =
                                Put(normalized_files_map, file_name, normalized_file)
                         /\ IF normalized_file \in normalized_files
                            THEN /\ conflicted_files' = conflicted_files \cup {normalized_file}
                                 /\ UNCHANGED normalized_files
                            ELSE /\ normalized_files' = normalized_files \cup {normalized_file}
                                 /\ UNCHANGED conflicted_files
                         /\ UNCHANGED status
           ELSE UNCHANGED <<normalized_files_map, normalized_files, conflicted_files, status>>

\* mutant: the conflict set is not consulted
normalized_file_name_in_ignoring_conflicts(nmap, conflicted, file_name) ==
    IF file_name \in DOMAIN nmap THEN nmap[file_name] ELSE file_name

normalized_file_name_in(nmap, conflicted, file_name) ==
    IF file_name \in DOMAIN nmap /\ nmap[file_name] \notin conflicted
    THEN nmap[file_name]
    ELSE file_name

normalized_file_name(file_name) ==
    normalized_file_name_in(normalized_files_map, conflicted_files, file_name)

\* std::unordered_map::operator[]: a missing key is inserted with an empty value
index_inserting(m, k) == IF k \in DOMAIN m THEN m ELSE Put(m, k, <<>>)

\* mutant: operator[] is evaluated whether or not the map contains the key
map_after_lookup_eager(file_name) == index_inserting(normalized_files_map, file_name)

\* normalized_files_map after normalized_file_name(file_name): the right-hand
\* side of && and the return statement use operator[], reached only when
\* contains(file_name) holds
map_after_lookup(file_name) ==
    IF file_name \in DOMAIN normalized_files_map
    THEN index_inserting(normalized_files_map, file_name)
    ELSE normalized_files_map

(***************************************************************************)
(* Inclusion tracking (nested mode).                                       *)
(***************************************************************************)
NoPfile == [isNull |-> TRUE, real_file_name |-> nullptr, real_dir_name |-> nullptr]

Pfile(real_file, real_dir) ==
    [isNull |-> FALSE, real_file_name |-> real_file, real_dir_name |-> real_dir]

IncState ==
    [preprocess_start |-> preprocess_start,
     preprocess_end |-> preprocess_end,
     preprocessing_stack |-> preprocessing_stack,
     last_function_parsed_ts |-> last_function_parsed_ts]

\* mutant: the start time is overwritten by every enter
record_start_overwrites(starts, name, now) == Put(starts, name, now)

\* mutant: the circular-inclusion test never fires
is_circular_never(file_name) == FALSE

\* mutant: the end time is overwritten by every close
record_end_overwrites(ends, top, now) == Put(ends, top, now)

\* "if (!preprocess_start.contains(file_name)) preprocess_start[file_name] = now"
record_start(starts, name, now) ==
    IF name \in DOMAIN starts THEN starts ELSE Put(starts, name, now)

\* "if (!preprocess_end.contains(top)) preprocess_end[top] = now"
record_end(ends, top, now) ==
    IF top \in DOMAIN ends THEN ends ELSE Put(ends, top, now)

\* the circular-inclusion test of start_preprocess_file
is_circular(file_name) ==
    /\ file_name \in DOMAIN preprocess_start
    /\ file_name \notin DOMAIN preprocess_end

Log(op, arg, t) == hist' = Append(hist, [op |-> op, arg |-> arg, t |-> t])

\* the <<file, directory>> that start_preprocess_file registers, <<>> if none
registration_of(file_name, pfile) ==
    IF file_name = nullptr \/ file_name = CommandLine \/ is_circular(file_name)
    THEN <<>>
    ELSE IF ~pfile.isNull /\ pfile.real_dir_name # nullptr /\ pfile.real_file_name # nullptr
    THEN <<pfile.real_file_name, pfile.real_dir_name>>
    ELSE <<>>

start_preprocess_file(file_name, pfile, now) ==
    /\ status = "running"
    /\ clock' = now
    /\ hist' = Append(hist, [op |-> "start_preprocess_file", arg |-> file_name, t |-> now,
                             reg |-> registration_of(file_name, pfile)])
    /\ UNCHANGED <<preprocess_end, last_function_parsed_ts, passVars, funVars, outVars, offered>>
    /\ IF file_name = nullptr \/ file_name = CommandLine
       THEN UNCHANGED <<preprocess_start, preprocessing_stack, pathVars, status>>
       ELSE LET circular == is_circular(file_name)
                name == IF circular THEN CIRCULAR_POISON_VALUE ELSE file_name
                pf == IF circular THEN NoPfile ELSE pfile
            IN  /\ preprocess_start' = record_start(preprocess_start, name, now)
                /\ preprocessing_stack' = Append(preprocessing_stack, name)
                /\ IF ~pf.isNull /\ pf.real_dir_name # nullptr /\ pf.real_file_name # nullptr
                   THEN register_include_location(pf.real_file_name, pf.real_dir_name)
                   ELSE UNCHANGED <<pathVars, status>>

\* mutant: the marker is set to the time of the leave, without the 3 ns
end_preprocess_file_on_no_pad(s, now) ==
    LET top == Last(s.preprocessing_stack)
    IN  [preprocess_start |-> s.preprocess_start,
         preprocess_end |-> record_end(s.preprocess_end, top, now),
         preprocessing_stack |-> Front(s.preprocessing_stack),
         last_function_parsed_ts |-> now]

\* end_preprocess_file on an inclusion state with a non-empty stack
end_preprocess_file_on(s, now) ==
    LET top == Last(s.preprocessing_stack)
    IN  [preprocess_start |-> s.preprocess_start,
         preprocess_end |-> record_end(s.preprocess_end, top, now),
         preprocessing_stack |-> Front(s.preprocessing_stack),
         last_function_parsed_ts |-> now + 3]

SetIncState(s) ==
    /\ preprocess_start' = s.preprocess_start
    /\ preprocess_end' = s.preprocess_end
    /\ preprocessing_stack' = s.preprocessing_stack
    /\ last_function_parsed_ts' = s.last_function_parsed_ts

end_preprocess_file(now) ==
    /\ status = "running"
    /\ clock' = now
    /\ Log("end_preprocess_file", nullptr, now)
    /\ UNCHANGED <<passVars, pathVars, funVars, outVars, offered>>
    /\ IF preprocessing_stack = <<>>
       THEN \* top() and pop() of an empty std::stack: undefined behaviour
            /\ status' = "undefined"
            /\ UNCHANGED <<incVars, last_function_parsed_ts>>
       ELSE /\ SetIncState(end_preprocess_file_on(IncState, now))
            /\ UNCHANGED status

\* mutant: the marker is refreshed even when no inclusion is open
RECURSIVE finish_preprocessing_stage_on_refreshing(_, _)
finish_preprocessing_stage_on_refreshing(s, rs) ==
    IF s.preprocessing_stack = <<>>
    THEN [s EXCEPT !.last_function_parsed_ts = clock]
    ELSE LET closed == end_preprocess_file_on(s, rs[1])
         IN  finish_preprocessing_stage_on_refreshing(
                 [closed EXCEPT !.last_function_parsed_ts = rs[2]],
                 SubSeq(rs, 3, Len(rs)))

\* mutant: the open inclusions are left open
finish_preprocessing_stage_on_leaving_open(s, rs) == s

\* the loop of finish_preprocessing_stage: rs holds the two readings of each
\* iteration, the one of end_preprocess_file and the one of the loop body
RECURSIVE finish_preprocessing_stage_on(_, _)
finish_preprocessing_stage_on(s, rs) ==
    IF s.preprocessing_stack = <<>>
    THEN s
    ELSE LET closed == end_preprocess_file_on(s, rs[1])
         IN  finish_preprocessing_stage_on(
                 [closed EXCEPT !.last_function_parsed_ts = rs[2]],
                 SubSeq(rs, 3, Len(rs)))

finish_preprocessing_stage(rs) ==
    /\ status = "running"
    /\ Len(rs) = 2 * Len(preprocessing_stack)
    /\ clock' = IF rs = <<>> THEN clock ELSE Last(rs)
    /\ Log("finish_preprocessing_stage", nullptr, clock')
    /\ SetIncState(finish_preprocessing_stage_on(IncState, rs))
    /\ UNCHANGED <<passVars, pathVars, funVars, outVars, status, offered>>

(***************************************************************************)
(* Stage tracking (sequential mode).                                       *)
(***************************************************************************)
\* the fields of an opt_pass the plugin reads: pass->name is the key
opt_pass_type_of(pass) ==
    CASE pass = <<"inline">> -> "GIMPLE_PASS"
      [] pass = <<"expand">> -> "RTL_PASS"
      [] OTHER -> "OTHER"

static_pass_number_of(pass) ==
    CASE pass = <<"inline">> -> 3
      [] pass = <<"expand">> -> 12
      [] OTHER -> 0

pass_type(type) ==
    CASE type = "GIMPLE_PASS" -> GIMPLE_PASS
      [] type = "RTL_PASS" -> RTL_PASS
      [] type = "SIMPLE_IPA_PASS" -> SIMPLE_IPA_PASS
      [] type = "IPA_PASS" -> IPA_PASS
      [] OTHER -> UNKNOWN

OptPassEvent(pass, ts) == [pass |-> pass, ts |-> ts]

\* mutant: the pending stage is appended even when there is none
start_opt_pass_always_appending(pass, now) ==
    /\ status = "running"
    /\ clock' = now
    /\ Log("start_opt_pass", pass, now)
    /\ pass_events' = Append(pass_events, [last_pass EXCEPT !.ts.end = now])
    /\ last_pass' = OptPassEvent(pass, TimeSpan(now + 1, now))
    /\ UNCHANGED <<incVars, last_function_parsed_ts, pathVars, funVars, outVars,
                   status, offered>>

start_opt_pass(pass, now) ==
    /\ status = "running"
    /\ clock' = now
    /\ Log("start_opt_pass", pass, now)
    /\ LET closed == [last_pass EXCEPT !.ts.end = now]
       IN  /\ pass_events' =
                  IF closed.pass # nullptr
                  THEN Append(pass_events, closed)
                  ELSE pass_events
           /\ last_pass' = OptPassEvent(pass, TimeSpan(now + 1, now))
    /\ UNCHANGED <<incVars, last_function_parsed_ts, pathVars, funVars, outVars,
                   status, offered>>

(***************************************************************************)
(* Scope and function recorder.                                            *)
(***************************************************************************)
\* mutant: the file name is resolved when the function is recorded
FunctionEvent_resolved_early(name, file_name, ts) ==
    [name |-> name, file_name |-> normalized_file_name(file_name), ts |-> ts]

FinishedFunction(name, file_name, scope_name, scope_type) ==
    [name |-> name, file_name |-> file_name,
     scope_name |-> scope_name, scope_type |-> scope_type]

ScopeEvent(name, type, ts) == [name |-> name, type |-> type, ts |-> ts]

FunctionEvent(name, file_name, ts) == [name |-> name, file_name |-> file_name, ts |-> ts]

\* mutant: the function starts at the marker, without the 3 ns
function_span_no_pad(now) == TimeSpan(last_function_parsed_ts, now)

\* mutant: the function starts 3 ns after the last clock reading
function_span_from_clock(now) == TimeSpan(clock + 3, now)

\* the span of the function being recorded
function_span(now) == TimeSpan(last_function_parsed_ts + 3, now)

\* mutant: the flag of the previous call is not consulted
extends_last_scope_ignoring_flag(info) ==
    /\ scope_events # <<>>
    /\ Last(scope_events).name = info.scope_name

\* mutant: the name of the last ScopeEvent is not compared
extends_last_scope_any_name(info) ==
    /\ scope_events # <<>>
    /\ did_last_function_have_scope

\* whether the last ScopeEvent is extended instead of a new one appended
extends_last_scope(info) ==
    /\ scope_events # <<>>
    /\ did_last_function_have_scope
    /\ Last(scope_events).name = info.scope_name

end_parse_function(info, now) ==
    /\ status = "running"
    /\ clock' = now
    /\ hist' = Append(hist, [op |-> "end_parse_function", arg |-> info.scope_name,
                             t |-> now, file |-> info.file_name])
    /\ LET ts == function_span(now)
       IN  /\ last_function_parsed_ts' = now
           /\ function_events' =
                  Append(function_events, FunctionEvent(info.name, info.file_name, ts))
           /\ IF info.scope_name # nullptr
              THEN /\ scope_events' =
                          IF extends_last_scope(info)
                          THEN [scope_events EXCEPT ![Len(scope_events)].ts.end = ts.end + 1]
                          ELSE Append(scope_events,
                                      ScopeEvent(info.scope_name, info.scope_type,
                                                 TimeSpan(ts.start - 1, ts.end + 1)))
                   /\ did_last_function_have_scope' = TRUE
              ELSE /\ UNCHANGED scope_events
                   /\ did_last_function_have_scope' = FALSE
    /\ UNCHANGED <<incVars, passVars, pathVars, outVars, status, offered>>

(***************************************************************************)
(* Trace emitter.                                                          *)
(***************************************************************************)
CategoryStrings ==
    <<"TU", "PREPROCESS", "FUNCTION", "STRUCT", "NAMESPACE", "GIMPLE_PASS",
      "RTL_PASS", "SIMPLE_IPA_PASS", "IPA_PASS", "UNKNOWN">>

category_string(cat) == CategoryStrings[cat + 1]

\* static_cast<double>(ts) * 0.001L: nanoseconds as microseconds with three
\* decimals (exact up to the rounding of a double)
ToMicroseconds(ts) == [whole |-> ts \div 1000, thousandths |-> ts % 1000]

getpid == 4242

new_event(event, pid, tid, ts, phase, this_uid) ==
    [name |-> event.name,
     ph |-> phase,
     cat |-> category_string(event.category),
     ts |-> ToMicroseconds(ts),
     pid |-> pid,
     tid |-> tid,
     args |-> [UID |-> this_uid, more |-> event.args]]

OutState == [list |-> output_events_list, UID |-> UID]

\* mutant: an event of exactly the threshold is dropped too
too_short_inclusive(event) == (event.ts.end - event.ts.start) <= MINIMUM_EVENT_LENGTH_NS

\* whether add_event drops the event
too_short(event) == (event.ts.end - event.ts.start) < MINIMUM_EVENT_LENGTH_NS

\* mutant: a dropped event consumes a UID
add_event_on_uid_always(out, event) ==
    IF too_short(event)
    THEN [list |-> out.list, UID |-> out.UID + 1]
    ELSE LET this_uid == out.UID
         IN  [list |-> out.list \o
                       <<new_event(event, getpid, 0, event.ts.start, "B", this_uid),
                         new_event(event, getpid, 0, event.ts.end, "E", this_uid)>>,
              UID |-> out.UID + 1]

add_event_on(out, event) ==
    IF too_short(event)
    THEN out
    ELSE LET this_uid == out.UID
         IN  [list |-> out.list \o
                       <<new_event(event, getpid, 0, event.ts.start, "B", this_uid),
                         new_event(event, getpid, 0, event.ts.end, "E", this_uid)>>,
              UID |-> out.UID + 1]

RECURSIVE add_events_on(_, _)
add_events_on(out, events) ==
    IF events = <<>>
    THEN out
    ELSE add_events_on(add_event_on(out, Head(events)), Tail(events))

add_event(event) ==
    /\ status = "running"
    /\ Log("add_event", event.name, clock)
    /\ offered' = Append(offered, event)
    /\ LET out == add_event_on(OutState, event)
       IN  /\ output_events_list' = out.list
           /\ UID' = out.UID
    /\ UNCHANGED <<clock, incVars, last_function_parsed_ts, passVars, pathVars, funVars,
                   trace_file, status>>

RECURSIVE to_string(_)
to_string(n) ==
    LET digits == <<"0", "1", "2", "3", "4", "5", "6", "7", "8", "9">>
    IN  IF n < 0 THEN <<"-">> \o to_string(0 - n)
        ELSE IF n < 10 THEN <<digits[n + 1]>>
        ELSE to_string(n \div 10) \o <<digits[(n % 10) + 1]>>

\* mutant: the loop stops one entry early
RECURSIVE preprocessing_events_but_last(_, _)
preprocessing_events_but_last(s, order) ==
    IF Len(order) <= 1
    THEN <<>>
    ELSE LET file == Head(order)
             rest == preprocessing_events_but_last(s, Tail(order))
         IN  IF file = CIRCULAR_POISON_VALUE
             THEN rest
             ELSE <<TraceEvent(normalized_file_name(file), PREPROCESS,
                               TimeSpan(s.preprocess_start[file], s.preprocess_end[file]),
                               NoArgs)>> \o rest

\* mutant: the sentinel record is offered like any other
RECURSIVE preprocessing_events_with_sentinel(_, _)
preprocessing_events_with_sentinel(s, order) ==
    IF order = <<>>
    THEN <<>>
    ELSE LET file == Head(order)
         IN  <<TraceEvent(normalized_file_name(file), PREPROCESS,
                          TimeSpan(s.preprocess_start[file], s.preprocess_end[file]),
                          NoArgs)>> \o preprocessing_events_with_sentinel(s, Tail(order))

\* the events write_preprocessing_events offers, files visited in `order`
RECURSIVE preprocessing_events(_, _)
preprocessing_events(s, order) ==
    IF order = <<>>
    THEN <<>>
    ELSE LET file == Head(order)
             rest == preprocessing_events(s, Tail(order))
         IN  IF file = CIRCULAR_POISON_VALUE
             THEN rest
             ELSE <<TraceEvent(normalized_file_name(file), PREPROCESS,
                               TimeSpan(s.preprocess_start[file], s.preprocess_end[file]),
                               NoArgs)>> \o rest

\* preprocess_end.at(file) throws std::out_of_range for a file without an end
at_throws(s, order) ==
    \E i \in 1..Len(order) :
        /\ order[i] # CIRCULAR_POISON_VALUE
        /\ order[i] \notin DOMAIN s.preprocess_end

opt_pass_events ==
    [i \in 1..Len(pass_events) |->
        TraceEvent(pass_events[i].pass,
                   pass_type(opt_pass_type_of(pass_events[i].pass)),
                   pass_events[i].ts,
                   Args("static_pass_number",
                        to_string(static_pass_number_of(pass_events[i].pass))))]

all_functions ==
    [i \in 1..Len(function_events) |->
        TraceEvent(function_events[i].name, FUNCTION, function_events[i].ts,
                   Args("file", normalized_file_name(function_events[i].file_name)))]

all_scopes ==
    [i \in 1..Len(scope_events) |->
        TraceEvent(scope_events[i].name, scope_events[i].type, scope_events[i].ts, NoArgs)]

RECURSIVE Orders(_)
Orders(S) ==
    IF S = {} THEN {<<>>}
    ELSE UNION {{<<x>> \o p : p \in Orders(S \ {x})} : x \in S}

\* what a failed dump or fclose leaves in the sink: not the whole document
Truncated == [truncated |-> TRUE]

\* the sink holds one complete document
IsComplete(content) == Len(content) = 1 /\ "traceEvents" \in DOMAIN content[1]

\* rs: the reading of the TU event, then the readings of the forced close;
\* order: the iteration order of the unordered map preprocess_start;
\* sink_ok: whether dump and fclose reach the disk
write_all_events(rs, order, sink_ok) ==
    /\ status = "running"
    /\ Len(rs) = 1 + 2 * Len(preprocessing_stack)
    /\ clock' = Last(rs)
    /\ Log("write_all_events", nullptr, rs[1])
    /\ LET tu == TraceEvent(<<"TU">>, TU, TimeSpan(0, rs[1]), NoArgs)
           s == finish_preprocessing_stage_on(IncState, Tail(rs))
       IN  /\ SetIncState(s)
           /\ IF at_throws(s, order)
              THEN /\ offered' = Append(offered, tu)
                   /\ output_events_list' = add_event_on(OutState, tu).list
                   /\ UID' = add_event_on(OutState, tu).UID
                   /\ status' = "terminated"
                   /\ UNCHANGED trace_file
              ELSE LET events == <<tu>> \o preprocessing_events(s, order)
                                 \o opt_pass_events \o all_functions \o all_scopes
                       out == add_events_on(OutState, events)
                   IN  /\ offered' = offered \o events
                       /\ output_events_list' = <<>>
                       /\ UID' = out.UID
                       /\ trace_file' =
                              [state |-> "closed",
                               content |-> IF sink_ok
                                           THEN <<[displayTimeUnit |-> "ns",
                                                   beginningOfTime |-> "COMPILATION_START",
                                                   traceEvents |-> out.list]>>
                                           ELSE <<Truncated>>]
                       /\ status' = "written"
    /\ UNCHANGED <<passVars, pathVars, funVars>>

(***************************************************************************)
(* The state after plugin_init has succeeded: the statics are zero, the    *)
(* sink is open and init_output_file has created an empty traceEvents.     *)
(***************************************************************************)
Init ==
    /\ clock = 0
    /\ preprocess_start = EmptyMap
    /\ preprocess_end = EmptyMap
    /\ preprocessing_stack = <<>>
    /\ last_function_parsed_ts = 0
    /\ last_pass = OptPassEvent(nullptr, TimeSpan(0, 0))
    /\ pass_events = <<>>
    /\ file_to_include_directory = EmptyMap
    /\ normalized_files_map = EmptyMap
    /\ normalized_files = {}
    /\ conflicted_files = {}
    /\ scope_events = <<>>
    /\ function_events = <<>>
    /\ did_last_function_have_scope = FALSE
    /\ output_events_list = <<>>
    /\ UID = 0
    /\ trace_file = [state |-> "open", content |-> <<>>]
    /\ status = "running"
    /\ hist = <<>>
    /\ offered = <<>>

(***************************************************************************)
(* Inputs.                                                                 *)
(***************************************************************************)
FileX == <<"/", "a", "/", "x">>

FileY == <<"/", "a", "/", "y">>

FileNames == {FileX, FileY}

FileMain == <<"m", "a", "i", "n", ".", "c", "p", "p">>

SmallTicks == {0, 1}

(***************************************************************************)
(* SpecIncl: the inclusion tracker under enter, leave, forced close and    *)
(* the final emission.  leave is called with an open inclusion only (the   *)
(* contract of the tracker).                                               *)
(***************************************************************************)
InclEnter ==
    /\ Len(hist) < MaxInclOps
    /\ Len(preprocessing_stack) < MaxInclDepth
    /\ \E file_name \in FileNames, now \in Readings(SmallTicks) :
           start_preprocess_file(file_name, NoPfile, now)

InclLeave ==
    /\ Len(hist) < MaxInclOps
    /\ preprocessing_stack # <<>>
    /\ \E now \in Readings(SmallTicks) : end_preprocess_file(now)

InclForceClose ==
    /\ Len(hist) < MaxInclOps
    /\ \E rs \in ReadingSeqs(SmallTicks, 2 * Len(preprocessing_stack)) :
           finish_preprocessing_stage(rs)

InclEmit ==
    /\ Len(hist) <= MaxInclOps
    /\ Len(preprocessing_stack) <= MaxEmitDepth
    /\ \E rs \in ReadingSeqs(SmallTicks, 1 + 2 * Len(preprocessing_stack)),
          order \in Orders(DOMAIN preprocess_start) :
           write_all_events(rs, order, TRUE)

NextIncl == InclEnter \/ InclLeave \/ InclForceClose \/ InclEmit

SpecIncl == Init /\ [][NextIncl]_vars

(***************************************************************************)
(* SpecSeq: the sequential sources (stages, functions, scopes) with the    *)
(* inclusion calls that move the boundary marker interleaved.              *)
(***************************************************************************)
SeqTicks == {0, 2, 7}

Passes == {<<"inline">>, <<"expand">>}

Functions ==
    {FinishedFunction(<<"f">>, FileX, nullptr, UNKNOWN),
     FinishedFunction(<<"f">>, FileX, <<"N">>, NAMESPACE),
     FinishedFunction(<<"f">>, FileX, <<"M">>, STRUCT)}

SeqEnter ==
    /\ Len(hist) < MaxSeqOps
    /\ Len(preprocessing_stack) < MaxSeqDepth
    /\ \E now \in Readings(SeqTicks) : start_preprocess_file(FileX, NoPfile, now)

SeqLeave ==
    /\ Len(hist) < MaxSeqOps
    /\ preprocessing_stack # <<>>
    /\ \E now \in Readings(SeqTicks) : end_preprocess_file(now)

SeqForceClose ==
    /\ Len(hist) < MaxSeqOps
    /\ \E rs \in ReadingSeqs(SeqTicks, 2 * Len(preprocessing_stack)) :
           finish_preprocessing_stage(rs)

SeqStage ==
    /\ Len(hist) < MaxSeqOps
    /\ \E pass \in Passes, now \in Readings(SeqTicks) : start_opt_pass(pass, now)

SeqFunction ==
    /\ Len(hist) < MaxSeqOps
    /\ \E info \in Functions, now \in Readings(SeqTicks) : end_parse_function(info, now)

NextSeq == SeqEnter \/ SeqLeave \/ SeqForceClose \/ SeqStage \/ SeqFunction

SpecSeq == Init /\ [][NextSeq]_vars

(***************************************************************************)
(* SpecEmit: add_event called with events of every duration around the    *)
(* threshold.                                                              *)
(***************************************************************************)
EmitStarts == {0, 5}

EmitDurations == {0 - 1, 0, 999999, 1000000, 1000001}

EmitEvents ==
    {TraceEvent(<<"e">>, FUNCTION, TimeSpan(start, start + d), NoArgs) :
        start \in EmitStarts, d \in EmitDurations}

EmitAdd ==
    /\ Len(hist) < MaxEmitOps
    /\ \E event \in EmitEvents : add_event(event)

NextEmit == EmitAdd

SpecEmit == Init /\ [][NextEmit]_vars

(***************************************************************************)
(* SpecPath: register_include_location called with the paths realpath can  *)
(* give: a directory that is a component prefix of the file, one that is   *)
(* a mere string prefix, one that is no prefix, and the file itself.       *)
(***************************************************************************)
PathA == <<"/", "a">>

PathAB == <<"/", "a", "/", "b">>

PathABC == <<"/", "a", "/", "b", "/", "c">>

PathAC == <<"/", "a", "/", "c">>

PathABcC == <<"/", "a", "/", "b", "c", "/", "c">>

PathFiles == {PathABC, PathAC, PathABcC, PathAB}

PathDirs == {PathA, PathAB}

register(file_name, dir_name) ==
    /\ status = "running"
    /\ hist' = Append(hist, [op |-> "register_include_location", arg |-> file_name,
                             dir |-> dir_name, t |-> clock])
    /\ register_include_location(file_name, dir_name)
    /\ UNCHANGED <<clock, incVars, last_function_parsed_ts, passVars, funVars, outVars,
                   offered>>

\* a call of normalized_file_name; the value returned is logged
resolve(file_name) ==
    /\ status = "running"
    /\ hist' = Append(hist, [op |-> "normalized_file_name", arg |-> file_name,
                             t |-> clock, result |-> normalized_file_name(file_name)])
    /\ normalized_files_map' = map_after_lookup(file_name)
    /\ UNCHANGED <<clock, incVars, last_function_parsed_ts, passVars, funVars, outVars,
                   file_to_include_directory, normalized_files, conflicted_files,
                   status, offered>>

PathRegister ==
    /\ Len(hist) < MaxPathOps
    /\ \E file_name \in PathFiles, dir_name \in PathDirs : register(file_name, dir_name)

PathResolve ==
    /\ Len(hist) < MaxPathOps
    /\ \E file_name \in PathFiles : resolve(file_name)

NextPath == PathRegister \/ PathResolve

SpecPath == Init /\ [][NextPath]_vars

(***************************************************************************)
(* SpecRun: a whole run: the callbacks of one compilation, then the        *)
(* emission.  A tick of the clock is nothing or two milliseconds, so spans *)
(* fall on both sides of the minimum-duration filter.                      *)
(***************************************************************************)
RunTicks == {0, 2000000}

RunEnter ==
    /\ Len(hist) < MaxRunOps
    /\ Len(preprocessing_stack) < MaxRunDepth
    /\ \E now \in Readings(RunTicks) : start_preprocess_file(FileX, NoPfile, now)

RunLeave ==
    /\ Len(hist) < MaxRunOps
    /\ preprocessing_stack # <<>>
    /\ \E now \in Readings(RunTicks) : end_preprocess_file(now)

RunStage ==
    /\ Len(hist) < MaxRunOps
    /\ \E pass \in Passes, now \in Readings(RunTicks) : start_opt_pass(pass, now)

RunFunction ==
    /\ Len(hist) < MaxRunOps
    /\ \E info \in Functions, now \in Readings(RunTicks) : end_parse_function(info, now)

RunEmit ==
    /\ Len(hist) <= MaxRunOps
    /\ \E rs \in ReadingSeqs(RunTicks, 1 + 2 * Len(preprocessing_stack)),
          order \in Orders(DOMAIN preprocess_start),
          sink_ok \in BOOLEAN :
           write_all_events(rs, order, sink_ok)

NextRun == RunEnter \/ RunLeave \/ RunStage \/ RunFunction \/ RunEmit

SpecRun == Init /\ [][NextRun]_vars

(***************************************************************************)
(* SpecStart: the plugin from the moment GCC loads it.  plugin_init reads  *)
(* the plugin arguments and opens the sink; the callbacks exist only once  *)
(* it has returned 0.                                                      *)
(***************************************************************************)
\* a plugin_argument: value is a null pointer for -fplugin-arg-gperf-KEY
\* given without "=VALUE"
plugin_argument(key, value) == [key |-> key, value |-> value]

FileOut == <<"/", "t", "/", "o">>

DirOut == <<"/", "t">>

ArgLists ==
    {<<>>,
     <<plugin_argument(<<"trace">>, FileOut)>>,
     <<plugin_argument(<<"trace-dir">>, DirOut)>>,
     <<plugin_argument(<<"verbose">>, FileOut)>>,
     <<plugin_argument(<<"trace">>, nullptr)>>,
     <<plugin_argument(<<"trace-dir">>, nullptr)>>,
     <<plugin_argument(<<"trace">>, FileOut), plugin_argument(<<"trace-dir">>, DirOut)>>}

\* the outcome of setup_output: whether it returned and what, and the sink.
\* "absent": no file; "orphan": a file created by mkstemps without a stream;
\* "open": a created, empty file with a stream on it
SetupOutcome(returns, ok, sink) == [returns |-> returns, ok |-> ok, sink |-> sink]

\* mkstemps_ok: mkstemps gave a descriptor; stream_ok: fdopen or fopen gave a
\* stream.  A null value reaches fopen, or the constructor of std::string,
\* as a null pointer: undefined behaviour (fopen may fail or crash; libstdc++
\* throws std::logic_error, which ends the process)
setup_output(argv, mkstemps_ok, stream_ok) ==
    IF Len(argv) = 0
    THEN IF ~mkstemps_ok THEN {SetupOutcome(TRUE, FALSE, "absent")}
         ELSE IF stream_ok THEN {SetupOutcome(TRUE, TRUE, "open")}
         ELSE {SetupOutcome(TRUE, FALSE, "orphan")}
    ELSE IF Len(argv) = 1 /\ argv[1].key = <<"trace">>
    THEN IF argv[1].value = nullptr
         THEN {SetupOutcome(TRUE, FALSE, "absent"), SetupOutcome(FALSE, FALSE, "absent")}
         ELSE IF stream_ok THEN {SetupOutcome(TRUE, TRUE, "open")}
         ELSE {SetupOutcome(TRUE, FALSE, "absent")}
    ELSE IF Len(argv) = 1 /\ argv[1].key = <<"trace-dir">>
    THEN IF argv[1].value = nullptr
         THEN {SetupOutcome(FALSE, FALSE, "absent")}
         ELSE IF ~mkstemps_ok THEN {SetupOutcome(TRUE, FALSE, "absent")}
         ELSE IF stream_ok THEN {SetupOutcome(TRUE, TRUE, "open")}
         ELSE {SetupOutcome(TRUE, FALSE, "orphan")}
    ELSE {SetupOutcome(TRUE, FALSE, "absent")}

\* init_output_file runs inside setup_output when the stream exists; the
\* callbacks are registered (status "running") only when setup_output
\* returned true
plugin_init(argv, mkstemps_ok, stream_ok) ==
    /\ status = "loading"
    /\ \E o \in setup_output(argv, mkstemps_ok, stream_ok) :
           LET call == [op |-> "plugin_init", arg |-> nullptr, t |-> clock,
                        argv |-> argv, mkstemps_ok |-> mkstemps_ok,
                        stream_ok |-> stream_ok,
                        result |-> IF ~o.returns THEN "no return"
                                   ELSE IF o.ok THEN "0" ELSE "-1"]
           IN  /\ hist' = IF o.returns /\ o.ok
                          THEN <<call, [op |-> "init_output_file", arg |-> nullptr,
                                        t |-> clock]>>
                          ELSE <<call>>
               /\ status' = IF ~o.returns THEN "terminated"
                            ELSE IF o.ok THEN "running" ELSE "init_failed"
               /\ trace_file' = [state |-> o.sink, content |-> <<>>]
    /\ UNCHANGED <<clock, incVars, last_function_parsed_ts, passVars, pathVars, funVars,
                   output_events_list, UID, offered>>

InitStart ==
    /\ clock = 0
    /\ preprocess_start = EmptyMap
    /\ preprocess_end = EmptyMap
    /\ preprocessing_stack = <<>>
    /\ last_function_parsed_ts = 0
    /\ last_pass = OptPassEvent(nullptr, TimeSpan(0, 0))
    /\ pass_events = <<>>
    /\ file_to_include_directory = EmptyMap
    /\ normalized_files_map = EmptyMap
    /\ normalized_files = {}
    /\ conflicted_files = {}
    /\ scope_events = <<>>
    /\ function_events = <<>>
    /\ did_last_function_have_scope = FALSE
    /\ output_events_list = <<>>
    /\ UID = 0
    /\ trace_file = [state |-> "absent", content |-> <<>>]
    /\ status = "loading"
    /\ hist = <<>>
    /\ offered = <<>>

StartPluginInit ==
    /\ hist = <<>>
    /\ \E argv \in ArgLists, mkstemps_ok \in BOOLEAN, stream_ok \in BOOLEAN :
           plugin_init(argv, mkstemps_ok, stream_ok)

StartCompilation ==
    /\ Len(hist) <= MaxStartOps
    /\ preprocessing_stack = <<>>
    /\ \E now \in Readings(RunTicks) : start_preprocess_file(FileMain, NoPfile, now)

StartStage ==
    /\ Len(hist) <= MaxStartOps
    /\ \E pass \in Passes, now \in Readings(RunTicks) : start_opt_pass(pass, now)

StartFinish ==
    /\ Len(hist) <= MaxStartOps + 1
    /\ \E rs \in ReadingSeqs(RunTicks, 1 + 2 * Len(preprocessing_stack)),
          order \in Orders(DOMAIN preprocess_start),
          sink_ok \in BOOLEAN :
           write_all_events(rs, order, sink_ok)

NextStart == StartPluginInit \/ StartCompilation \/ StartStage \/ StartFinish

SpecStart == InitStart /\ [][NextStart]_vars

(***************************************************************************)
(* SpecHost: the callbacks as GCC delivers them.  The preprocessor reports *)
(* every file it enters, "<command-line>" included, and reports a leave    *)
(* only for a file it has entered and not yet left; PLUGIN_FINISH_DECL     *)
(* arrives after any declaration, inside any file.                         *)
(***************************************************************************)
\* the files GCC has entered and not left after the first n logged calls,
\* as indices of their enter calls, innermost last
RECURSIVE HostStack(_)
HostStack(n) ==
    IF n = 0 THEN <<>>
    ELSE LET below == HostStack(n - 1)
         IN  IF hist[n].op = "start_preprocess_file" THEN Append(below, n)
             ELSE IF hist[n].op = "end_preprocess_file" THEN Front(below)
             ELSE below

\* ORDINARY_MAP_FILE_NAME(new_map) of a leave: the file returned to
HostReturnedTo ==
    LET open == HostStack(Len(hist))
    IN  IF Len(open) >= 2 THEN hist[open[Len(open) - 1]].arg ELSE FileMain

cb_file_change(reason, file_name, pfile, now) ==
    IF file_name = nullptr
    THEN UNCHANGED vars
    ELSE CASE reason = "LC_ENTER" -> start_preprocess_file(file_name, pfile, now)
           [] reason = "LC_LEAVE" -> end_preprocess_file(now)
           [] OTHER -> UNCHANGED vars

cb_finish_decl(rs) == finish_preprocessing_stage(rs)

HostNames == {FileX, FileY, CommandLine}

HostEnter ==
    /\ Len(hist) < MaxHostOps
    /\ Len(HostStack(Len(hist))) < MaxHostDepth
    /\ \E file_name \in HostNames, now \in Readings(SmallTicks) :
           cb_file_change("LC_ENTER", file_name, NoPfile, now)

HostLeave ==
    /\ Len(hist) < MaxHostOps
    /\ HostStack(Len(hist)) # <<>>
    /\ \E now \in Readings(SmallTicks) :
           cb_file_change("LC_LEAVE", HostReturnedTo, NoPfile, now)

HostFinishDecl ==
    /\ Len(hist) < MaxHostOps
    /\ \E rs \in ReadingSeqs(SmallTicks, 2 * Len(preprocessing_stack)) : cb_finish_decl(rs)

NextHost == HostEnter \/ HostLeave \/ HostFinishDecl

SpecHost == Init /\ [][NextHost]_vars

(***************************************************************************)
(* SpecNames: files entered with the include directory GCC found them in   *)
(* (so that they are registered), functions recorded for those files, and  *)
(* the emission.                                                           *)
(***************************************************************************)
NamesTicks == {1}

NamesFiles == {PathABC, PathAC}

NamesEnter ==
    /\ Len(hist) < MaxNamesOps
    /\ Len(preprocessing_stack) < MaxNamesDepth
    /\ \E file_name \in NamesFiles, dir_name \in PathDirs, now \in Readings(NamesTicks) :
           start_preprocess_file(file_name, Pfile(file_name, dir_name), now)

NamesLeave ==
    /\ Len(hist) < MaxNamesOps
    /\ preprocessing_stack # <<>>
    /\ \E now \in Readings(NamesTicks) : end_preprocess_file(now)

NamesFunction ==
    /\ Len(hist) < MaxNamesOps
    /\ \E file_name \in NamesFiles, now \in Readings(NamesTicks) :
           end_parse_function(FinishedFunction(<<"f">>, file_name, nullptr, UNKNOWN), now)

NamesEmit ==
    /\ Len(hist) <= MaxNamesOps
    /\ \E rs \in ReadingSeqs(NamesTicks, 1 + 2 * Len(preprocessing_stack)),
          order \in Orders(DOMAIN preprocess_start) :
           write_all_events(rs, order, TRUE)

NextNames == NamesEnter \/ NamesLeave \/ NamesFunction \/ NamesEmit

SpecNames == Init /\ [][NextNames]_vars

(***************************************************************************)
(* SpecE2E: one compilation of "main.cpp": the main file is entered, two   *)
(* functions of namespace N are parsed, the pass "inline" starts, the file *)
(* is left and the run finishes.  Every tick of the clock is longer than   *)
(* the minimum event length.                                               *)
(***************************************************************************)
E2ETicks == {1000004, 2000000, 3000000}

E2EFunctions ==
    <<FinishedFunction(<<"f">>, FileMain, <<"N">>, NAMESPACE),
      FinishedFunction(<<"g">>, FileMain, <<"N">>, NAMESPACE)>>

E2EEnter ==
    /\ Len(hist) = 0
    /\ \E now \in Readings(E2ETicks) : start_preprocess_file(FileMain, NoPfile, now)

E2EFunction ==
    /\ Len(hist) \in {1, 2}
    /\ \E now \in Readings(E2ETicks) : end_parse_function(E2EFunctions[Len(hist)], now)

E2EStage ==
    /\ Len(hist) = 3
    /\ \E now \in Readings(E2ETicks) : start_opt_pass(<<"inline">>, now)

E2ELeave ==
    /\ Len(hist) = 4
    /\ \E now \in Readings(E2ETicks) : end_preprocess_file(now)

E2EEmit ==
    /\ Len(hist) = 5
    /\ \E rs \in ReadingSeqs(E2ETicks, 1 + 2 * Len(preprocessing_stack)),
          order \in Orders(DOMAIN preprocess_start) :
           write_all_events(rs, order, TRUE)

NextE2E == E2EEnter \/ E2EFunction \/ E2EStage \/ E2ELeave \/ E2EEmit

SpecE2E == Init /\ [][NextE2E]_vars

(***************************************************************************)
(* Properties of the inclusion tracker.                                    *)
(***************************************************************************)
IsCall(i, op, arg) == i <= Len(hist) /\ hist[i].op = op /\ hist[i].arg = arg

\* C1: a real (non-sentinel) file identifier occurs at most once in the
\* open-inclusion stack, after any sequence of enter, leave and forced close.
C1_RealIdOpenAtMostOnce ==
    \A i, j \in 1..Len(preprocessing_stack) :
        (/\ preprocessing_stack[i] = preprocessing_stack[j]
         /\ preprocessing_stack[i] # CIRCULAR_POISON_VALUE) => i = j

\* the calls so far begin with enter(x), enter(x), leave(), leave()
CircularRun(x) ==
    /\ IsCall(1, "start_preprocess_file", x)
    /\ IsCall(2, "start_preprocess_file", x)
    /\ IsCall(3, "end_preprocess_file", nullptr)
    /\ IsCall(4, "end_preprocess_file", nullptr)

\* C2: enter(x), enter(x), leave(), leave() from the initial state yields one
\* real inclusion record, for x, from the first enter to the second leave;
\* the inner inclusion is recorded under the sentinel only, and the emission
\* that follows offers the record of x and nothing for the sentinel.
C2_CircularInclusion ==
    \A x \in FileNames :
        CircularRun(x) =>
            /\ Len(hist) = 4 =>
                  /\ DOMAIN preprocess_start = {x, CIRCULAR_POISON_VALUE}
                  /\ DOMAIN preprocess_end = {x, CIRCULAR_POISON_VALUE}
                  /\ preprocess_start[x] = hist[1].t
                  /\ preprocess_end[x] = hist[4].t
                  /\ preprocess_start[CIRCULAR_POISON_VALUE] = hist[2].t
                  /\ preprocess_end[CIRCULAR_POISON_VALUE] = hist[3].t
                  /\ preprocessing_stack = <<>>
            /\ (Len(hist) = 5 /\ IsCall(5, "write_all_events", nullptr)) =>
                  /\ offered =
                        <<TraceEvent(<<"TU">>, TU, TimeSpan(0, hist[5].t), NoArgs),
                          TraceEvent(x, PREPROCESS, TimeSpan(hist[1].t, hist[4].t), NoArgs)>>
                  /\ \A i \in 1..Len(offered) : offered[i].name # CIRCULAR_POISON_VALUE
                  /\ status = "written"
                  /\ \A i \in 1..Len(trace_file.content[1].traceEvents) :
                        trace_file.content[1].traceEvents[i].name # CIRCULAR_POISON_VALUE

C2_Witness ==
    /\ CircularRun(FileX)
    /\ Len(hist) = 5
    /\ IsCall(5, "write_all_events", nullptr)
    /\ hist[1].t < hist[2].t
    /\ hist[3].t < hist[4].t

\* a step keeps every start time and every end time already recorded
RecordedTimesKept ==
    /\ \A f \in DOMAIN preprocess_start :
           f \in DOMAIN preprocess_start' /\ preprocess_start'[f] = preprocess_start[f]
    /\ \A f \in DOMAIN preprocess_end :
           f \in DOMAIN preprocess_end' /\ preprocess_end'[f] = preprocess_end[f]

\* the calls so far begin with enter(x), leave(), enter(x), leave()
ReenterRun(x) ==
    /\ IsCall(1, "start_preprocess_file", x)
    /\ IsCall(2, "end_preprocess_file", nullptr)
    /\ IsCall(3, "start_preprocess_file", x)
    /\ IsCall(4, "end_preprocess_file", nullptr)

\* C3: first-seen start and first-close end win: no call changes a start or
\* an end time once recorded, and after enter(x), leave(), enter(x), leave()
\* the record of x holds the time of the first enter and of the first leave.
C3_FirstSeenFirstCloseWin ==
    /\ [][RecordedTimesKept]_vars
    /\ [](\A x \in FileNames :
             ReenterRun(x) =>
                 /\ preprocess_start[x] = hist[1].t
                 /\ preprocess_end[x] = hist[2].t)

C3_Witness ==
    /\ ReenterRun(FileX)
    /\ Len(hist) = 4
    /\ hist[1].t < hist[3].t
    /\ hist[2].t < hist[4].t
    /\ preprocess_start[FileX] = hist[1].t
    /\ preprocess_end[FileX] = hist[2].t

(***************************************************************************)
(* Properties of the recorded spans.                                       *)
(***************************************************************************)
WellFormed(ts) == ts.end >= ts.start

\* C4: under a non-decreasing clock every recorded span has end >= start:
\* every closed inclusion record, every stage of the history, every function
\* record and every scope record.
C4_EndNotBeforeStart ==
    /\ \A f \in DOMAIN preprocess_end : preprocess_end[f] >= preprocess_start[f]
    /\ \A i \in 1..Len(pass_events) : WellFormed(pass_events[i].ts)
    /\ \A i \in 1..Len(function_events) : WellFormed(function_events[i].ts)
    /\ \A i \in 1..Len(scope_events) : WellFormed(scope_events[i].ts)

\* each entry of a list of spans starts strictly after the one before it ends
StrictlySequential(events) ==
    \A i \in 1..(Len(events) - 1) : events[i + 1].ts.start > events[i].ts.end

\* C5: consecutive entries of the stage history, and consecutive function
\* records, satisfy next.start > prev.end, whatever calls are interleaved.
C5_SequentialSourcesOrdered ==
    /\ StrictlySequential(pass_events)
    /\ StrictlySequential(function_events)

\* two functions recorded with a leave between them
C5_Witness ==
    /\ Len(function_events) = 2
    /\ Len(hist) = 4
    /\ IsCall(3, "end_preprocess_file", nullptr)
    /\ function_events[2].ts.start > function_events[1].ts.end

\* the stage records offered to add_event so far
OfferedStages ==
    SelectSeq(offered, LAMBDA e : e.category \in {GIMPLE_PASS, RTL_PASS, SIMPLE_IPA_PASS,
                                                  IPA_PASS, UNKNOWN})

\* the start_stage calls made so far
StageCalls == SelectSeq(hist, LAMBDA h : h.op = "start_opt_pass")

\* C6: after the emission every stage begun by start_stage has been offered
\* to the emitter, the last one with end = the time of the emission: n calls
\* of start_stage followed by emit offer n stage records.
C6_PendingStageFlushed ==
    status = "written" =>
        /\ Len(OfferedStages) = Len(StageCalls)
        /\ \A i \in 1..Len(StageCalls) : OfferedStages[i].name = StageCalls[i].arg

\* the scope names of the record_function calls made so far, in call order
ScopeOfCalls ==
    LET calls == SelectSeq(hist, LAMBDA h : h.op = "end_parse_function")
    IN  [i \in 1..Len(calls) |-> calls[i].arg]

\* the calls that open a run: a scope name that the call before did not carry
RunStarts(scopes) ==
    {i \in 1..Len(scopes) :
        /\ scopes[i] # nullptr
        /\ (i = 1 \/ scopes[i - 1] # scopes[i])}

\* the last call of the run that call a opens
RunEnd(scopes, a) ==
    CHOOSE b \in a..Len(scopes) :
        /\ \A i \in a..b : scopes[i] = scopes[a]
        /\ (b = Len(scopes) \/ scopes[b + 1] # scopes[a])

\* C7: every maximal run of consecutive record_function calls with the same
\* scope name yields exactly one ScopeRecord, in call order, with the span
\* {start of the run's first function - 1, end of its last function + 1}.
C7_ScopeCoalescing ==
    LET scopes == ScopeOfCalls
        starts == RunStarts(scopes)
    IN  /\ Len(function_events) = Len(scopes)
        /\ Len(scope_events) = Cardinality(starts)
        /\ \A a \in starts :
               LET k == Cardinality({i \in starts : i <= a})
                   b == RunEnd(scopes, a)
               IN  /\ scope_events[k].name = scopes[a]
                   /\ scope_events[k].ts =
                          TimeSpan(function_events[a].ts.start - 1,
                                   function_events[b].ts.end + 1)

\* three functions of one scope after a scope-less one: one ScopeRecord
C7_Witness ==
    /\ ScopeOfCalls = <<nullptr, <<"N">>, <<"N">>, <<"N">>>>
    /\ Len(scope_events) = 1
    /\ scope_events[1].ts.start = function_events[2].ts.start - 1
    /\ scope_events[1].ts.end = function_events[4].ts.end + 1
    /\ function_events[4].ts.end > function_events[2].ts.end

(***************************************************************************)
(* Properties of the trace emitter.                                        *)
(***************************************************************************)
\* the events offered so far that last at least 1,000,000 ns
LongEnough == SelectSeq(offered, LAMBDA e : e.ts.end - e.ts.start >= 1000000)

\* C8: add_event appends records for an event exactly when its end - start
\* is at least 1,000,000 ns: such an event contributes one begin and one end
\* record with the same UID, a shorter one contributes nothing.
C8_MinimumDurationFilter ==
    /\ Len(output_events_list) = 2 * Len(LongEnough)
    /\ \A i \in 1..Len(LongEnough) :
           LET b == output_events_list[2 * i - 1]
               e == output_events_list[2 * i]
           IN  /\ b.ph = "B" /\ e.ph = "E"
               /\ b.name = LongEnough[i].name /\ e.name = LongEnough[i].name
               /\ b.args.UID = e.args.UID

\* events of 999,999, 1,000,000 and 1,000,001 ns were offered: two pairs
C8_Witness ==
    /\ Len(offered) = 3
    /\ offered[1].ts.end - offered[1].ts.start = 999999
    /\ offered[2].ts.end - offered[2].ts.start = 1000000
    /\ offered[3].ts.end - offered[3].ts.start = 1000001
    /\ Len(output_events_list) = 4

FromMicroseconds(us) == us.whole * 1000 + us.thousandths

\* C9: traceEvents has even length; its records 2i and 2i+1 (from 0) are the
\* "B" record with the start and the "E" record with the end of the i-th
\* surviving event, both with UID = i; a dropped event consumes no UID.
C9_PairedRecordsAndUids ==
    /\ Len(output_events_list) % 2 = 0
    /\ UID = Len(output_events_list) \div 2
    /\ Len(LongEnough) = UID
    /\ \A i \in 0..(UID - 1) :
           LET b == output_events_list[2 * i + 1]
               e == output_events_list[2 * i + 2]
           IN  /\ b.ph = "B"
               /\ FromMicroseconds(b.ts) = LongEnough[i + 1].ts.start
               /\ e.ph = "E"
               /\ FromMicroseconds(e.ts) = LongEnough[i + 1].ts.end
               /\ b.args.UID = i
               /\ e.args.UID = i

\* a dropped event between two surviving ones: the UIDs are 0 and 1
C9_Witness ==
    /\ Len(offered) = 3
    /\ offered[2].ts.end - offered[2].ts.start = 999999
    /\ Len(output_events_list) = 4
    /\ output_events_list[3].args.UID = 1
    /\ output_events_list[4].args.UID = 1

(***************************************************************************)
(* Properties of the path normaliser.                                      *)
(***************************************************************************)
\* the register calls made so far
IsRegister(i) == hist[i].op = "register_include_location"

\* the file path of call i is its directory, one separator and the name r
SplitsAs(i, r) == hist[i].arg = hist[i].dir \o <<"/">> \o r

\* no registered path other than f has the normalized name r
NoOtherClaims(f, r) ==
    \A g \in DOMAIN normalized_files_map : g # f => normalized_files_map[g] # r

Remainders == {SubSeq(f, k, Len(f)) : f \in PathFiles, k \in 1..7}

\* C10 as stated: whenever register was called with file D/R and directory D
\* and no other registered path normalizes to R, resolve of the file gives R.
C10_RoundTripAnyCall ==
    \A i \in 1..Len(hist) : \A r \in Remainders :
        (IsRegister(i) /\ SplitsAs(i, r) /\ NoOtherClaims(hist[i].arg, r))
            => normalized_file_name(hist[i].arg) = r

\* call i is the first register call for its file path
FirstRegistration(i) == \A j \in 1..(i - 1) : ~(IsRegister(j) /\ hist[j].arg = hist[i].arg)

\* C10 amended: if the first register call for a file path gives it as D/R
\* with directory D, and no other registered path normalizes to R, resolve
\* of the file gives R.
C10_RoundTripFirstCall ==
    \A i \in 1..Len(hist) : \A r \in Remainders :
        (IsRegister(i) /\ FirstRegistration(i) /\ SplitsAs(i, r)
             /\ NoOtherClaims(hist[i].arg, r))
            => normalized_file_name(hist[i].arg) = r

\* register("/a/b/c", "/a/b") among other registrations: resolve gives "c"
C10_Witness ==
    /\ Len(hist) = 2
    /\ IsRegister(2)
    /\ hist[2].arg = PathABC /\ hist[2].dir = PathAB
    /\ hist[1].arg = PathABcC
    /\ normalized_file_name(PathABC) = <<"c">>

\* the paths f and g are registered, distinct, and have the same normalized name
SameNormalizedName(f, g) ==
    /\ f \in DOMAIN normalized_files_map
    /\ g \in DOMAIN normalized_files_map
    /\ f # g
    /\ normalized_files_map[f] = normalized_files_map[g]

\* C11: once two distinct paths with the same normalized name are registered,
\* resolve of each returns the path itself, in either registration order; no
\* step removes a name from the conflict set or a path from the name table,
\* so this stays true after every later registration.
C11_ConflictFallback ==
    /\ [][/\ conflicted_files \subseteq conflicted_files'
          /\ \A f \in DOMAIN normalized_files_map :
                 /\ f \in DOMAIN normalized_files_map'
                 /\ normalized_files_map'[f] = normalized_files_map[f]]_vars
    /\ [](\A f, g \in PathFiles :
             SameNormalizedName(f, g) =>
                 /\ normalized_file_name(f) = f
                 /\ normalized_file_name(g) = g)

\* "/a/c" under "/a" and "/a/b/c" under "/a/b" both normalize to "c"; a
\* third registration follows and both still resolve to themselves
C11_Witness ==
    /\ Len(hist) = 3
    /\ IsRegister(1) /\ hist[1].arg = PathAC /\ hist[1].dir = PathA
    /\ IsRegister(2) /\ hist[2].arg = PathABC /\ hist[2].dir = PathAB
    /\ IsRegister(3) /\ hist[3].arg = PathABcC
    /\ SameNormalizedName(PathAC, PathABC)
    /\ normalized_files_map[PathAC] = <<"c">>
    /\ normalized_file_name(PathAC) = PathAC
    /\ normalized_file_name(PathABC) = PathABC

\* C18: register_include_location completes normally for every file path and
\* directory, a file path equal to the directory included: no registration
\* ends the run.
C18_RegisterNeverAborts == status = "running"

\* the step is a call of normalized_file_name
IsResolveStep ==
    /\ Len(hist') = Len(hist) + 1
    /\ hist'[Len(hist')].op = "normalized_file_name"

IsForceCloseStep ==
    /\ Len(hist') = Len(hist) + 1
    /\ hist'[Len(hist')].op = "finish_preprocessing_stage"

\* C12: finish_preprocessing_stage called with an empty inclusion stack
\* changes neither the start and end tables, the stack, the boundary marker
\* nor any event list; as this holds of every such step it holds of any
\* number of repeated calls.
C12_ForceCloseIdempotent ==
    [][(IsForceCloseStep /\ preprocessing_stack = <<>>) =>
          UNCHANGED <<clock, incVars, last_function_parsed_ts, passVars, pathVars,
                      funVars, outVars, status, offered>>]_vars

\* enter, leave, then two forced closes: the marker is still the one of leave
C12_Witness ==
    /\ Len(hist) = 4
    /\ IsCall(1, "start_preprocess_file", FileX)
    /\ IsCall(2, "end_preprocess_file", nullptr)
    /\ IsCall(3, "finish_preprocessing_stage", nullptr)
    /\ IsCall(4, "finish_preprocessing_stage", nullptr)
    /\ last_function_parsed_ts = hist[2].t + 3
    /\ preprocess_end[FileX] = hist[2].t
    /\ preprocessing_stack = <<>>

\* C13: whatever enter, leave and forced-close calls came before, the forced
\* close that write_preprocessing_events runs first leaves the stack empty
\* and an end time for every identifier with a start time, so the lookup
\* preprocess_end.at(file) fails for no iteration order; the emission never
\* ends the run there.
C13_NoOpenRecordWhenRead ==
    /\ status # "terminated"
    /\ status = "running" =>
           \A rs \in ReadingSeqs(SmallTicks, 2 * Len(preprocessing_stack)) :
               LET s == finish_preprocessing_stage_on(IncState, rs)
               IN  /\ s.preprocessing_stack = <<>>
                   /\ DOMAIN s.preprocess_start \subseteq DOMAIN s.preprocess_end
                   /\ \A order \in Orders(DOMAIN s.preprocess_start) : ~at_throws(s, order)
    /\ status = "written" =>
           /\ preprocessing_stack = <<>>
           /\ DOMAIN preprocess_start \subseteq DOMAIN preprocess_end

\* the emission ran while "/a/x" was still open, after "/a/y" was closed
C13_Witness ==
    /\ Len(hist) = 4
    /\ IsCall(1, "start_preprocess_file", FileX)
    /\ IsCall(2, "start_preprocess_file", FileY)
    /\ IsCall(3, "end_preprocess_file", nullptr)
    /\ IsCall(4, "write_all_events", nullptr)
    /\ status = "written"
    /\ preprocess_end[FileX] >= hist[4].t
    /\ Len(offered) = 3

(***************************************************************************)
(* Properties of the emission.                                             *)
(***************************************************************************)
\* the inclusion records offered to add_event so far
OfferedInclusions == SelectSeq(offered, LAMBDA e : e.category = PREPROCESS)

\* the records of the trace document, if one was written
WrittenRecords ==
    IF IsComplete(trace_file.content)
    THEN trace_file.content[1].traceEvents
    ELSE <<>>

\* C14: the sentinel inclusion record is never offered to the emitter and no
\* record of the trace carries the sentinel identifier, however long the
\* sentinel record lasts; every other inclusion record is offered.
C14_SentinelNeverEmitted ==
    /\ \A i \in 1..Len(offered) : offered[i].name # CIRCULAR_POISON_VALUE
    /\ \A i \in 1..Len(WrittenRecords) : WrittenRecords[i].name # CIRCULAR_POISON_VALUE
    /\ status = "written" =>
           Len(OfferedInclusions) =
               Cardinality(DOMAIN preprocess_start \ {CIRCULAR_POISON_VALUE})

\* a sentinel record of two milliseconds or more, and a trace that holds the
\* record of the real file
C14_Witness ==
    /\ status = "written"
    /\ CIRCULAR_POISON_VALUE \in DOMAIN preprocess_start
    /\ preprocess_end[CIRCULAR_POISON_VALUE] - preprocess_start[CIRCULAR_POISON_VALUE]
           > MINIMUM_EVENT_LENGTH_NS
    /\ \E i \in 1..Len(WrittenRecords) : WrittenRecords[i].name = FileX

\* C17: if the write or the close of the trace file fails, the emission ends
\* the run in an error state: the run is never reported as written unless the
\* sink holds the complete document.
C17_SinkFailureIsFatal ==
    status = "written" =>
        IsComplete(trace_file.content)

\* the events of the trace: the "B" records, in emission order
WrittenEvents == SelectSeq(WrittenRecords, LAMBDA r : r.ph = "B")

\* the number of events of the trace in category cat
WrittenIn(cat) ==
    Len(SelectSeq(WrittenEvents, LAMBDA r : r.cat = category_string(cat)))

\* C15: after enter("main.cpp"), two functions of scope "N", the start of
\* pass "inline", leave and the emission, with every span above the filter,
\* the trace holds one TU event, one inclusion event, one scope event, two
\* function events and one stage event, each as a "B" record followed by its
\* "E" record, with UIDs that increase strictly in emission order.
C15_EndToEnd ==
    status = "written" =>
        /\ WrittenIn(TU) = 1
        /\ WrittenIn(PREPROCESS) = 1
        /\ WrittenIn(NAMESPACE) = 1
        /\ WrittenIn(FUNCTION) = 2
        /\ WrittenIn(GIMPLE_PASS) = 1
        /\ Len(WrittenRecords) = 2 * Len(WrittenEvents)
        /\ \A i \in 1..Len(WrittenEvents) :
               /\ WrittenRecords[2 * i - 1].ph = "B"
               /\ WrittenRecords[2 * i].ph = "E"
               /\ WrittenRecords[2 * i].args.UID = WrittenRecords[2 * i - 1].args.UID
               /\ WrittenRecords[2 * i].name = WrittenRecords[2 * i - 1].name
        /\ \A i \in 1..(Len(WrittenEvents) - 1) :
               WrittenEvents[i + 1].args.UID > WrittenEvents[i].args.UID

(***************************************************************************)
(* Properties of the start of the plugin and of the artifact.              *)
(***************************************************************************)
\* C16: in every state from the start of the plugin on, the trace file
\* either does not exist or holds one complete JSON document; no empty or
\* partial file exists while the run goes on or after it has stopped early.
C16_AllOrNothingArtifact ==
    trace_file.state = "absent" \/ IsComplete(trace_file.content)

\* no argument, one trace=FILE or one trace-dir=DIRECTORY
IsSelection(argv) ==
    \/ Len(argv) = 0
    \/ /\ Len(argv) = 1
       /\ argv[1].key \in {<<"trace">>, <<"trace-dir">>}
       /\ argv[1].value # nullptr

\* the sink of a plugin_init call was opened
SinkOpened(call) ==
    IF Len(call.argv) = 0 \/ call.argv[1].key = <<"trace-dir">>
    THEN call.mkstemps_ok /\ call.stream_ok
    ELSE call.stream_ok

\* C20: plugin_init returns 0 only for no argument, one trace=FILE or one
\* trace-dir=DIRECTORY, and only when the sink was opened; for every other
\* argument list and every open failure it returns -1, init_output_file is
\* not called and no callback is registered; no operation of the engine runs
\* without an open sink.
C20_OutputSelection ==
    /\ \A i \in 1..Len(hist) :
           hist[i].op = "plugin_init" =>
               /\ i = 1
               /\ hist[i].result \in {"0", "-1"}
               /\ hist[i].result = "0" <=> (IsSelection(hist[i].argv) /\ SinkOpened(hist[i]))
               /\ hist[i].result = "-1" =>
                      /\ Len(hist) = 1
                      /\ status = "init_failed"
                      /\ trace_file.state # "open"
               /\ hist[i].result = "0" =>
                      /\ hist[2].op = "init_output_file"
                      /\ trace_file.state \in {"open", "closed"}
    /\ status \in {"running", "written"} => trace_file.state \in {"open", "closed"}

(***************************************************************************)
(* Properties of the callbacks.                                            *)
(***************************************************************************)
\* no file with a name that start_preprocess_file filters out was entered
NoFilteredEnter ==
    \A i \in 1..Len(hist) :
        hist[i].op = "start_preprocess_file" => hist[i].arg \notin {nullptr, CommandLine}

\* C21: when every leave callback follows its own enter callback, with
\* finish-declaration callbacks anywhere between them, end_preprocess_file
\* never runs on an empty inclusion stack.
C21_LeaveNeverOnEmptyStack == NoFilteredEnter => status # "undefined"

\* the step is a call of end_preprocess_file
IsLeaveStep ==
    /\ Len(hist') = Len(hist) + 1
    /\ hist'[Len(hist')].op = "end_preprocess_file"

\* no forced close has run so far
NoForceClose == \A i \in 1..Len(hist) : hist[i].op # "finish_preprocessing_stage"

\* C22: in a properly nested sequence of enter and leave callbacks every
\* leave closes the record of its own enter: the top of the stack is the
\* name (or the sentinel) that enter pushed and it has an end time after
\* the leave; the leave of an enter that was filtered out ("<command-line>")
\* closes nothing.
C22_LeaveClosesItsOwnEnter ==
    [][(IsLeaveStep /\ NoForceClose) =>
          LET own == hist[Last(HostStack(Len(hist)))].arg
          IN  IF own \in {nullptr, CommandLine}
              THEN UNCHANGED <<preprocess_end, preprocessing_stack>>
              ELSE /\ preprocessing_stack # <<>>
                   /\ Last(preprocessing_stack) \in {own, CIRCULAR_POISON_VALUE}
                   /\ Last(preprocessing_stack) \in DOMAIN preprocess_end']_vars

(***************************************************************************)
(* Properties of single calls of the sequential sources.                   *)
(***************************************************************************)
\* the step is a call of op; the call is the last entry of hist'
IsStep(op) ==
    /\ Len(hist') = Len(hist) + 1
    /\ hist'[Len(hist')].op = op

\* the names of the stages begun so far, without the last one
StageNamesButLast ==
    [i \in 1..(Len(StageCalls) - 1) |-> StageCalls[i].arg]

\* C23: start_opt_pass at time t appends the pending stage, with end = t, to
\* the history when there is one and appends nothing otherwise (the first
\* call); the new pending stage is the pass of the call with start = t + 1;
\* the history holds the stages in call order and never a null pass.
C23_StartStage ==
    /\ [][IsStep("start_opt_pass") =>
              LET call == hist'[Len(hist')]
              IN  /\ pass_events' =
                         IF last_pass.pass # nullptr
                         THEN Append(pass_events,
                                     OptPassEvent(last_pass.pass,
                                                  TimeSpan(last_pass.ts.start, call.t)))
                         ELSE pass_events
                  /\ last_pass.pass = nullptr <=> Len(StageCalls) = 0
                  /\ last_pass'.pass = call.arg
                  /\ last_pass'.ts.start = call.t + 1]_vars
    /\ [](/\ \A i \in 1..Len(pass_events) : pass_events[i].pass # nullptr
          /\ [i \in 1..Len(pass_events) |-> pass_events[i].pass] = StageNamesButLast)

\* three stages with a function between them: the history holds the first
\* two, in call order, the first one closed at the start of the second
C23_Witness ==
    /\ Len(hist) = 4
    /\ IsCall(1, "start_opt_pass", <<"expand">>)
    /\ IsCall(2, "start_opt_pass", <<"inline">>)
    /\ hist[3].op = "end_parse_function"
    /\ IsCall(4, "start_opt_pass", <<"expand">>)
    /\ Len(pass_events) = 2
    /\ pass_events[1].ts = TimeSpan(hist[1].t + 1, hist[2].t)
    /\ pass_events[2].ts = TimeSpan(hist[2].t + 1, hist[4].t)
    /\ hist[4].t > hist[2].t + 1

\* the end_parse_function calls made so far
FunctionCalls == SelectSeq(hist, LAMBDA h : h.op = "end_parse_function")

\* C24: end_parse_function at time t with boundary marker b appends exactly
\* one FunctionEvent, with span {b + 3, t}, at the end of function_events
\* and sets the marker to t; function_events has one entry per call, in
\* call order.
C24_RecordFunction ==
    /\ [][IsStep("end_parse_function") =>
              LET call == hist'[Len(hist')]
              IN  /\ Len(function_events') = Len(function_events) + 1
                  /\ SubSeq(function_events', 1, Len(function_events)) = function_events
                  /\ Last(function_events').ts =
                         TimeSpan(last_function_parsed_ts + 3, call.t)
                  /\ last_function_parsed_ts' = call.t]_vars
    /\ [](/\ Len(function_events) = Len(FunctionCalls)
          /\ \A i \in 1..Len(function_events) :
                 function_events[i].ts.end = FunctionCalls[i].t)

\* a function after a forced close and one after a leave: each starts 3 ns
\* after the marker those calls left
C24_Witness ==
    /\ Len(hist) = 4
    /\ hist[1].op = "start_preprocess_file"
    /\ hist[2].op = "end_parse_function"
    /\ hist[3].op = "end_preprocess_file"
    /\ hist[4].op = "end_parse_function"
    /\ Len(function_events) = 2
    /\ function_events[1].ts = TimeSpan(3, hist[2].t)
    /\ function_events[2].ts = TimeSpan(hist[3].t + 6, hist[4].t)
    /\ hist[2].t > 0
    /\ last_function_parsed_ts = hist[4].t

\* C25: end_parse_function without a scope name leaves scope_events
\* unchanged and ends the run of the scope before it: scope "N", no scope,
\* scope "N" gives two ScopeEvents, the second with the span {start - 1,
\* end + 1} of the third function.  A call whose scope name differs from the
\* name of the last ScopeEvent appends a new one and leaves the others
\* unchanged.
C25_ScopeFrame ==
    /\ [][IsStep("end_parse_function") =>
              LET call == hist'[Len(hist')]
              IN  /\ call.arg = nullptr => UNCHANGED scope_events
                  /\ (/\ call.arg # nullptr
                      /\ scope_events # <<>>
                      /\ Last(scope_events).name # call.arg) =>
                         /\ Len(scope_events') = Len(scope_events) + 1
                         /\ SubSeq(scope_events', 1, Len(scope_events)) = scope_events
                         /\ Last(scope_events').name = call.arg
                         /\ Last(scope_events').ts =
                                TimeSpan(Last(function_events').ts.start - 1,
                                         Last(function_events').ts.end + 1)]_vars
    /\ [](ScopeOfCalls = <<(<<"N">>), nullptr, (<<"N">>)>> =>
             /\ Len(scope_events) = 2
             /\ scope_events[1].ts = TimeSpan(function_events[1].ts.start - 1,
                                             function_events[1].ts.end + 1)
             /\ scope_events[2].ts = TimeSpan(function_events[3].ts.start - 1,
                                             function_events[3].ts.end + 1))

\* scope "N", no scope, scope "N": two ScopeEvents named "N"
C25_Witness ==
    /\ ScopeOfCalls = <<(<<"N">>), nullptr, (<<"N">>)>>
    /\ Len(scope_events) = 2
    /\ scope_events[1].name = <<"N">>
    /\ scope_events[2].name = <<"N">>
    /\ scope_events[2].ts.start > scope_events[1].ts.end

\* the index in hist of the last leave before call j, 0 when there is none
LastLeaveBefore(j) ==
    LET leaves == {i \in 1..(j - 1) : hist[i].op = "end_preprocess_file"}
    IN  IF leaves = {} THEN 0 ELSE CHOOSE i \in leaves : \A k \in leaves : k <= i

\* call j is the first end_parse_function after the leave i
FirstFunctionAfter(i, j) ==
    /\ hist[j].op = "end_parse_function"
    /\ LastLeaveBefore(j) = i
    /\ \A k \in (i + 1)..(j - 1) : hist[k].op # "end_parse_function"

\* the number of end_parse_function calls among the first j calls
FunctionsUpTo(j) == Cardinality({k \in 1..j : hist[k].op = "end_parse_function"})

\* C26: end_preprocess_file at time t pops exactly one stack entry, sets the
\* boundary marker to t + 3 and changes no stage, scope or function record;
\* the first function recorded after a leave starts strictly after t.
C26_LeaveAdvancesMarker ==
    /\ [][IsStep("end_preprocess_file") =>
              LET call == hist'[Len(hist')]
              IN  /\ preprocessing_stack' = Front(preprocessing_stack)
                  /\ Len(preprocessing_stack') = Len(preprocessing_stack) - 1
                  /\ last_function_parsed_ts' = call.t + 3
                  /\ UNCHANGED <<passVars, funVars>>]_vars
    /\ [](\A i, j \in 1..Len(hist) :
             (i < j /\ hist[i].op = "end_preprocess_file" /\ FirstFunctionAfter(i, j)) =>
                 function_events[FunctionsUpTo(j)].ts.start > hist[i].t)

\* a function recorded at the very reading of the leave before it
C26_Witness ==
    /\ Len(hist) = 3
    /\ hist[1].op = "start_preprocess_file"
    /\ hist[2].op = "end_preprocess_file"
    /\ hist[3].op = "end_parse_function"
    /\ hist[3].t = hist[2].t
    /\ function_events[1].ts.start = hist[2].t + 6

(***************************************************************************)
(* Forced close against repeated leaves; registration.                     *)
(***************************************************************************)
\* the inclusion state after one end_preprocess_file per reading of ts
RECURSIVE Leaves(_, _)
Leaves(s, ts) ==
    IF ts = <<>> THEN s
    ELSE Leaves(end_preprocess_file_on(s, Head(ts)), Tail(ts))

\* the readings that the end_preprocess_file calls of a forced close take
LeaveReadings(rs) == [k \in 1..(Len(rs) \div 2) |-> rs[2 * k - 1]]

\* C27: finish_preprocessing_stage on a stack of depth n reaches the state
\* that n successive end_preprocess_file calls with the same clock readings
\* reach, the boundary marker (time of the last leave + 3) included.
C27_ForceCloseIsRepeatedLeave ==
    status = "running" =>
        \A rs \in ReadingSeqs(SmallTicks, 2 * Len(preprocessing_stack)) :
            finish_preprocessing_stage_on(IncState, rs) = Leaves(IncState, LeaveReadings(rs))

\* the step is a register call for a path that is already registered
IsRepeatedRegisterStep ==
    /\ IsStep("register_include_location")
    /\ hist'[Len(hist')].arg \in DOMAIN file_to_include_directory

\* C28: register_include_location of a path already registered changes
\* nothing, whatever directory the second call gives and also when the
\* first call found no prefix: the path tables, the claimed names and the
\* conflict set stay as they are, so a path registered twice never puts its
\* own name into the conflict set.
C28_RepeatedRegisterIsNoOp ==
    /\ [][IsRepeatedRegisterStep => UNCHANGED <<pathVars, status>>]_vars
    /\ [](\A f \in DOMAIN normalized_files_map :
             normalized_files_map[f] \in conflicted_files =>
                 \E g \in DOMAIN normalized_files_map :
                     g # f /\ normalized_files_map[g] = normalized_files_map[f])

\* "/a/c" registered under "/a/b" (no prefix), then under "/a": still
\* without a name; and "/a/b/c" registered twice under different directories
C28_Witness ==
    /\ Len(hist) = 3
    /\ IsRegister(1) /\ hist[1].arg = PathAC /\ hist[1].dir = PathAB
    /\ IsRegister(2) /\ hist[2].arg = PathAC /\ hist[2].dir = PathA
    /\ IsRegister(3) /\ hist[3].arg = PathAC /\ hist[3].dir = PathA
    /\ file_to_include_directory[PathAC] = PathAB
    /\ PathAC \notin DOMAIN normalized_files_map
    /\ normalized_files = {}
    /\ conflicted_files = {}

\* C29: a path has a normalized name only when its directory is a prefix of
\* whole path components, and the name is the path without the directory and
\* without exactly one separator: path = directory + "/" + name.
C29_ComponentPrefixOnly ==
    \A f \in DOMAIN normalized_files_map :
        f = file_to_include_directory[f] \o <<"/">> \o normalized_files_map[f]

(***************************************************************************)
(* Properties of the display names.                                        *)
(***************************************************************************)
\* the name table and the conflict set that the registrations r[1..n] give,
\* whatever other calls came between them
RECURSIVE NamesAfter(_, _)
NamesAfter(r, n) ==
    IF n = 0
    THEN [dirs |-> {}, map |-> EmptyMap, names |-> {}, conflicts |-> {}]
    ELSE LET p == NamesAfter(r, n - 1)
             f == r[n][1]
             d == r[n][2]
         IN  IF f \in p.dirs THEN p
             ELSE IF ~starts_with(f, d) \/ substr_throws(f, Len(d) + 1)
             THEN [p EXCEPT !.dirs = p.dirs \cup {f}]
             ELSE LET name == substr(f, Len(d) + 1)
                  IN  [dirs |-> p.dirs \cup {f},
                       map |-> Put(p.map, f, name),
                       names |-> p.names \cup {name},
                       conflicts |-> IF name \in p.names
                                     THEN p.conflicts \cup {name}
                                     ELSE p.conflicts]

\* the registrations of the run, in call order
Registrations ==
    LET calls == SelectSeq(hist, LAMBDA h : h.op = "start_preprocess_file" /\ h.reg # <<>>)
    IN  [i \in 1..Len(calls) |-> calls[i].reg]

\* resolve applied after all registrations of the run
FinalName(file_name) ==
    LET p == NamesAfter(Registrations, Len(Registrations))
    IN  normalized_file_name_in(p.map, p.conflicts, file_name)

\* the function records offered to add_event so far
OfferedFunctions == SelectSeq(offered, LAMBDA e : e.category = FUNCTION)

\* C30: every emitted name is resolve applied after all registrations of
\* the run: the file field of the k-th function event is the final name of
\* the file of the k-th end_parse_function call, and the inclusion events
\* carry the final names of the files entered.  The final name depends on
\* the sequence of registrations only, not on where the function records
\* fall between them.
C30_NamesResolvedAtEmission ==
    status = "written" =>
        /\ Len(OfferedFunctions) = Len(FunctionCalls)
        /\ \A k \in 1..Len(FunctionCalls) :
               OfferedFunctions[k].args.value = FinalName(FunctionCalls[k].file)
        /\ {OfferedInclusions[k].name : k \in 1..Len(OfferedInclusions)} =
               {FinalName(f) : f \in DOMAIN preprocess_start \ {CIRCULAR_POISON_VALUE}}

\* a function of "/a/b/c" recorded while that file was "c" without conflict;
\* "/a/c" registered afterwards: the function is emitted with "/a/b/c"
C30_Witness ==
    /\ status = "written"
    /\ Len(hist) = 4
    /\ hist[1].op = "start_preprocess_file" /\ hist[1].reg = <<PathABC, PathAB>>
    /\ hist[2].op = "end_parse_function" /\ hist[2].file = PathABC
    /\ hist[3].op = "start_preprocess_file" /\ hist[3].reg = <<PathAC, PathA>>
    /\ OfferedFunctions[1].args.value = PathABC
    /\ conflicted_files = {<<"c">>}

(***************************************************************************)
(* Properties of the recorded data as a whole.                             *)
(***************************************************************************)
\* C31: the span {0, T} of the TU event contains the span of every other
\* record offered at the emission: 0 <= start and end <= T for every
\* inclusion record (those closed by the emission included), stage,
\* function and scope record.
C31_UnitOfWorkContainsAll ==
    status = "written" =>
        /\ offered[1].category = TU
        /\ offered[1].ts.start = 0
        /\ \A i \in 2..Len(offered) :
               /\ 0 <= offered[i].ts.start
               /\ offered[i].ts.end <= offered[1].ts.end

\* C32: no call reopens a recorded span: a closed inclusion record keeps its
\* start and its end, the stage history and the function list keep every
\* entry they hold, and a scope record keeps its name and start while its
\* end never decreases.
C32_SpansNeverReopened ==
    [][/\ \A f \in DOMAIN preprocess_end :
              /\ f \in DOMAIN preprocess_end'
              /\ preprocess_end'[f] = preprocess_end[f]
              /\ preprocess_start'[f] = preprocess_start[f]
       /\ Len(pass_events') >= Len(pass_events)
       /\ SubSeq(pass_events', 1, Len(pass_events)) = pass_events
       /\ Len(function_events') >= Len(function_events)
       /\ SubSeq(function_events', 1, Len(function_events)) = function_events
       /\ Len(scope_events') >= Len(scope_events)
       /\ \A i \in 1..Len(scope_events) :
              /\ scope_events'[i].name = scope_events[i].name
              /\ scope_events'[i].ts.start = scope_events[i].ts.start
              /\ scope_events'[i].ts.end >= scope_events[i].ts.end]_vars

\* a file closed, entered again and closed later: the first end time stays;
\* the marker is the one of the second leave
C32_Witness ==
    /\ Len(hist) = 4
    /\ hist[1].op = "start_preprocess_file"
    /\ hist[2].op = "end_preprocess_file"
    /\ hist[3].op = "start_preprocess_file"
    /\ hist[4].op = "end_preprocess_file"
    /\ hist[4].t > hist[2].t
    /\ preprocess_end[FileX] = hist[2].t
    /\ last_function_parsed_ts = hist[4].t + 3

\* C33: a scope record starts before and ends after every function of its
\* run (scope.start < function.start, function.end < scope.end), and each
\* scope record starts after the one before it has ended, whatever leave,
\* forced-close and stage calls come between the function calls.
C33_ScopesEncloseAndFollow ==
    LET scopes == ScopeOfCalls
        starts == RunStarts(scopes)
    IN  /\ \A a \in starts :
               LET k == Cardinality({i \in starts : i <= a})
               IN  \A i \in a..RunEnd(scopes, a) :
                       /\ scope_events[k].ts.start < function_events[i].ts.start
                       /\ function_events[i].ts.end < scope_events[k].ts.end
        /\ \A k \in 1..(Len(scope_events) - 1) :
               scope_events[k + 1].ts.start > scope_events[k].ts.end

\* the number of inclusion records offered under the name x
OfferedInclusionsOf(x) ==
    Cardinality({k \in 1..Len(OfferedInclusions) : OfferedInclusions[k].name = x})

\* the file x was entered at least once
WasEntered(x) == \E i \in 1..Len(hist) : IsCall(i, "start_preprocess_file", x)

\* C34: a file identifier has one inclusion record at most (one start, one
\* end), however often it is entered and left, and the emission offers
\* exactly one inclusion record for every identifier entered at least once
\* and none for any other.
C34_OneRecordPerFile ==
    /\ \A x \in FileNames : WasEntered(x) <=> x \in DOMAIN preprocess_start
    /\ status = "written" =>
           /\ \A x \in FileNames :
                  OfferedInclusionsOf(x) = IF WasEntered(x) THEN 1 ELSE 0
           /\ Len(OfferedInclusions) = Cardinality({x \in FileNames : WasEntered(x)})

\* "/a/x" entered and left twice, then the emission: one record of "/a/x"
C34_Witness ==
    /\ ReenterRun(FileX)
    /\ Len(hist) = 5
    /\ IsCall(5, "write_all_events", nullptr)
    /\ Len(OfferedInclusions) = 1
    /\ OfferedInclusions[1].ts = TimeSpan(hist[1].t, hist[2].t)
    /\ hist[3].t > hist[1].t

====
